---- MODULE Spec2Model ----
(***************************************************************************)
(* SmartResumeBuilder: the heuristic resume extractor of app.py            *)
(* (extract_resume_from_pdf), the /ats-score route that calls it, and the  *)
(* account, upload and resume routes with their User and Resume tables.    *)
(*                                                                         *)
(* Text is modelled by TLA+ strings over ASCII; a line index is the        *)
(* 0-based Python index.  The only line separator of the modelled texts is *)
(* "\n" and the whitespace characters are space, tab and newline.          *)
(***************************************************************************)
EXTENDS Integers, Sequences, FiniteSets, TLC

VARIABLES
    request,            \* the request to /ats-score: method, user of the browser,
                        \* file name, PDF content
    pc,                 \* position inside ats_score / extract_resume_from_pdf
    all_text,           \* local all_text of extract_resume_from_pdf
    lines,              \* local lines of extract_resume_from_pdf
    result,             \* local result of extract_resume_from_pdf (the returned mapping)
    section_positions,  \* local section_positions: field -> 0-based header index
    raised,             \* "none", or where the exception caught at line 423 came from
    response,           \* what ats_score answered
    users,              \* table user: id -> row
    sessions,           \* the ids of the users whose browser holds a login session
    resumes,            \* table resume: id -> row
    http,               \* the last request to a route of the resume pages and its answer
    served              \* number of such requests answered

\* the locals of a request to /ats-score
atsvars == <<request, pc, all_text, lines, result, section_positions, raised, response>>

\* the database, the sessions and the last exchange
appvars == <<users, sessions, resumes, http, served>>

vars == <<atsvars, appvars>>

-----------------------------------------------------------------------------
(* Characters and Python's str methods                                     *)

Digits == {"0", "1", "2", "3", "4", "5", "6", "7", "8", "9"}

LowerOf ==
    [c \in {"A"} |-> "a"] @@ [c \in {"B"} |-> "b"] @@ [c \in {"C"} |-> "c"] @@
    [c \in {"D"} |-> "d"] @@ [c \in {"E"} |-> "e"] @@ [c \in {"F"} |-> "f"] @@
    [c \in {"G"} |-> "g"] @@ [c \in {"H"} |-> "h"] @@ [c \in {"I"} |-> "i"] @@
    [c \in {"J"} |-> "j"] @@ [c \in {"K"} |-> "k"] @@ [c \in {"L"} |-> "l"] @@
    [c \in {"M"} |-> "m"] @@ [c \in {"N"} |-> "n"] @@ [c \in {"O"} |-> "o"] @@
    [c \in {"P"} |-> "p"] @@ [c \in {"Q"} |-> "q"] @@ [c \in {"R"} |-> "r"] @@
    [c \in {"S"} |-> "s"] @@ [c \in {"T"} |-> "t"] @@ [c \in {"U"} |-> "u"] @@
    [c \in {"V"} |-> "v"] @@ [c \in {"W"} |-> "w"] @@ [c \in {"X"} |-> "x"] @@
    [c \in {"Y"} |-> "y"] @@ [c \in {"Z"} |-> "z"]

UpperLetters == DOMAIN LowerOf

LowerLetters == {LowerOf[c] : c \in UpperLetters}

Letters == UpperLetters \cup LowerLetters

\* \s of the re module and str.isspace, on the modelled alphabet
Whitespace == {" ", "\t", "\n"}

\* \w of the re module, on the modelled alphabet
WordChars == Letters \cup Digits \cup {"_"}

Min2(a, b) == IF a <= b THEN a ELSE b

MinOf(S) == CHOOSE x \in S : \A y \in S : x <= y

\* s[i-1] of Python, as a one-character string ("" outside the string)
Char(s, i) == IF i >= 1 /\ i <= Len(s) THEN SubSeq(s, i, i) ELSE ""

\* s[a:b] of Python for 0 <= a, on strings and on lists
Slice(s, a, b) == SubSeq(s, a + 1, Min2(b, Len(s)))

LowerChar(c) == IF c \in UpperLetters THEN LowerOf[c] ELSE c

\* str.lower
RECURSIVE Lower(_)
Lower(s) ==
    IF Len(s) = 0 THEN ""
    ELSE IF Len(s) = 1 THEN LowerChar(s)
    ELSE LET h == Len(s) \div 2
         IN  Lower(SubSeq(s, 1, h)) \o Lower(SubSeq(s, h + 1, Len(s)))

\* p == s[i-1 : i-1+len(p)]
StartsAt(s, i, p) == i >= 1 /\ i + Len(p) - 1 <= Len(s) /\ SubSeq(s, i, i + Len(p) - 1) = p

\* the `in` operator on strings
Contains(s, p) == \E i \in 1..(Len(s) - Len(p) + 1) : StartsAt(s, i, p)

\* str.startswith
StartsWith(s, p) == StartsAt(s, 1, p)

\* same as StartsAt under re.IGNORECASE, p given in lower case
StartsAtCI(s, i, p) ==
    /\ i >= 1
    /\ i + Len(p) - 1 <= Len(s)
    /\ \A k \in 1..Len(p) : LowerChar(Char(s, i + k - 1)) = Char(p, k)

\* number of leading whitespace characters of s from position i on
RECURSIVE RunLen(_, _, _)
RunLen(s, i, class) ==
    IF i > Len(s) \/ Char(s, i) \notin class THEN 0 ELSE 1 + RunLen(s, i + 1, class)

\* number of characters of class that end at position i, going left
RECURSIVE RunLenBack(_, _, _)
RunLenBack(s, i, class) ==
    IF i < 1 \/ Char(s, i) \notin class THEN 0 ELSE 1 + RunLenBack(s, i - 1, class)

\* str.strip
Strip(s) ==
    LET lead  == RunLen(s, 1, Whitespace)
        trail == RunLenBack(s, Len(s), Whitespace)
    IN  IF lead = Len(s) THEN "" ELSE SubSeq(s, lead + 1, Len(s) - trail)

\* the pieces of s between the characters of delims (re.split on a character class)
Pieces(s, delims) ==
    LET ds    == {i \in 1..Len(s) : Char(s, i) \in delims}
        cnt   == Cardinality(ds)
        \* position of the k-th delimiter; 0 before the first, Len(s)+1 after the last
        at(k) == IF k = 0 THEN 0
                 ELSE IF k > cnt THEN Len(s) + 1
                 ELSE CHOOSE i \in ds : Cardinality({j \in ds : j < i}) = k - 1
    IN  [k \in 1..(cnt + 1) |-> SubSeq(s, at(k - 1) + 1, at(k) - 1)]

\* str.splitlines for texts whose only line boundary is "\n": no piece for the
\* empty string, and none after a final "\n"
SplitLines(s) ==
    LET ps == Pieces(s, {"\n"})
    IN  IF Len(s) = 0 THEN <<>>
        ELSE IF Char(s, Len(s)) = "\n" THEN SubSeq(ps, 1, Len(ps) - 1)
        ELSE ps

\* [ln.strip() for ln in seq if ln.strip()]
RECURSIVE StripLines(_)
StripLines(seq) ==
    IF Len(seq) = 0 THEN <<>>
    ELSE IF Len(seq) = 1 THEN (IF Strip(seq[1]) = "" THEN <<>> ELSE <<Strip(seq[1])>>)
    ELSE LET h == Len(seq) \div 2
         IN  StripLines(SubSeq(seq, 1, h)) \o StripLines(SubSeq(seq, h + 1, Len(seq)))

\* sep.join(seq)
RECURSIVE Join(_, _)
Join(seq, sep) ==
    IF Len(seq) = 0 THEN ""
    ELSE IF Len(seq) = 1 THEN seq[1]
    ELSE LET h == Len(seq) \div 2
         IN  Join(SubSeq(seq, 1, h), sep) \o sep \o Join(SubSeq(seq, h + 1, Len(seq)), sep)

\* len(ln.split())
WordCount(s) ==
    Cardinality({i \in 1..Len(s) :
        Char(s, i) \notin Whitespace /\ (i = 1 \/ Char(s, i - 1) \in Whitespace)})

\* number of characters not in class from position i on
RECURSIVE RunLenNot(_, _, _)
RunLenNot(s, i, class) ==
    IF i > Len(s) \/ Char(s, i) \in class THEN 0 ELSE 1 + RunLenNot(s, i + 1, class)

\* seq[:n]
Take(seq, n) == SubSeq(seq, 1, Min2(n, Len(seq)))

-----------------------------------------------------------------------------
(* The re module, for the patterns app.py uses                             *)

Lit(v) == [t |-> "lit", v |-> v]

WsPlus == [t |-> "ws+", v |-> ""]

DigitPlus == [t |-> "d+", v |-> ""]

Opt(c) == [t |-> "opt", v |-> c]

\* a pattern: ^ present, $ present, and the tokens between them
Pat(bol, toks, eol) == [bol |-> bol, toks |-> toks, eol |-> eol]

\* the tokens k.. of pattern p match low from position i on; the literals of
\* the patterns are in lower case and low is a lower-cased subject, which is
\* how re.IGNORECASE is modelled
RECURSIVE MatchFrom(_, _, _, _)
MatchFrom(p, k, low, i) ==
    IF k > Len(p.toks) THEN (~p.eol \/ i = Len(low) + 1)
    ELSE LET tok == p.toks[k]
         IN  CASE tok.t = "lit" ->
                    StartsAt(low, i, tok.v) /\ MatchFrom(p, k + 1, low, i + Len(tok.v))
               [] tok.t = "ws+" ->
                    \E n \in 1..RunLen(low, i, Whitespace) : MatchFrom(p, k + 1, low, i + n)
               [] tok.t = "d+" ->
                    \E n \in 1..RunLen(low, i, Digits) : MatchFrom(p, k + 1, low, i + n)
               [] tok.t = "opt" ->
                    \/ StartsAt(low, i, tok.v) /\ MatchFrom(p, k + 1, low, i + 1)
                    \/ MatchFrom(p, k + 1, low, i)

\* the pattern matches somewhere in the lower-cased subject
FindIn(p, low) ==
    IF p.bol THEN MatchFrom(p, 1, low, 1)
    ELSE \E i \in 1..(Len(low) + 1) : MatchFrom(p, 1, low, i)

\* re.search(p, s, re.IGNORECASE) is not None
re_search(p, s) == FindIn(p, Lower(s))

\* re.match(p, s, re.IGNORECASE) is not None
re_match(p, s) == MatchFrom(p, 1, Lower(s), 1)

\* [A-Za-z0-9._%+-]
EmailLocalClass == Letters \cup Digits \cup {".", "_", "%", "+", "-"}

\* [A-Za-z0-9.-]
EmailDomainClass == Letters \cup Digits \cup {".", "-"}

\* the match of the e-mail pattern whose "@" is at position j, "" if there is none:
\* the local part is the class run that ends before the "@"; the domain is
\* taken greedily and given back up to the last "." followed by two letters
EmailAt(s, j) ==
    LET i  == j - RunLenBack(s, j - 1, EmailLocalClass)
        e  == j + RunLen(s, j + 1, EmailDomainClass)
        ks == {k \in (j + 1)..(e - 1) :
                  /\ Char(s, k + 1) = "."
                  /\ Char(s, k + 2) \in Letters
                  /\ Char(s, k + 3) \in Letters}
    IN  IF Char(s, j) # "@" \/ i = j \/ ks = {} THEN ""
        ELSE LET k == CHOOSE x \in ks : \A y \in ks : y <= x
             IN  SubSeq(s, i, k + 1 + RunLen(s, k + 2, Letters))

\* re.search(r"[A-Za-z0-9._%+-]+@[A-Za-z0-9.-]+\.[A-Za-z]{2,}", s): group(0), "" if None
SearchEmail(s) ==
    LET ats == {j \in 1..Len(s) : Char(s, j) = "@" /\ EmailAt(s, j) # ""}
    IN  IF ats = {} THEN "" ELSE EmailAt(s, MinOf(ats))

AllDigits(s, a, b) == b <= Len(s) /\ \A k \in a..b : Char(s, k) \in Digits

\* the match of \+91[\s\-]?\d{10} that starts at i, "" if there is none
Phone91At(s, i) ==
    IF ~StartsAt(s, i, "+91") THEN ""
    ELSE IF Char(s, i + 3) \in (Whitespace \cup {"-"}) /\ AllDigits(s, i + 4, i + 13)
         THEN SubSeq(s, i, i + 13)
    ELSE IF AllDigits(s, i + 3, i + 12) THEN SubSeq(s, i, i + 12)
    ELSE ""

\* the match of \b0\d{10}\b that starts at i, "" if there is none
Phone0At(s, i) ==
    IF /\ Char(s, i) = "0"
       /\ AllDigits(s, i + 1, i + 10)
       /\ Char(s, i - 1) \notin WordChars
       /\ Char(s, i + 11) \notin WordChars
    THEN SubSeq(s, i, i + 10) ELSE ""

\* the match of \b\d{10}\b that starts at i, "" if there is none
Phone10At(s, i) ==
    IF /\ AllDigits(s, i, i + 9)
       /\ Char(s, i - 1) \notin WordChars
       /\ Char(s, i + 10) \notin WordChars
    THEN SubSeq(s, i, i + 9) ELSE ""

\* the loop over phone_patterns: the first pattern that matches gives the phone
SearchPhone(s) ==
    LET c1 == {i \in 1..Len(s) : Char(s, i) = "+" /\ Phone91At(s, i) # ""}
        c2 == {i \in 1..Len(s) : Char(s, i) = "0" /\ Phone0At(s, i) # ""}
        c3 == {i \in 1..Len(s) : Char(s, i) \in Digits /\ Phone10At(s, i) # ""}
    IN  IF c1 # {} THEN Phone91At(s, MinOf(c1))
        ELSE IF c2 # {} THEN Phone0At(s, MinOf(c2))
        ELSE IF c3 # {} THEN Phone10At(s, MinOf(c3))
        ELSE ""

\* re.search(host + r"[^\s]*", s, re.IGNORECASE): group(0), "" if None;
\* host is "linkedin.com" or "github.com"
SearchHost(s, host) ==
    LET c == {i \in 1..(Len(s) - Len(host) + 1) : StartsAtCI(s, i, host)}
    IN  IF c = {} THEN ""
        ELSE LET i == MinOf(c)
             IN  SubSeq(s, i, i + Len(host) - 1 + RunLenNot(s, i + Len(host), Whitespace))

\* mutant: the matched token is stored as it is
WithSchemeForgotten(url) == url

\* url if url.startswith("http") else "https://" + url
WithScheme(url) == IF StartsWith(url, "http") THEN url ELSE "https://" \o url

-----------------------------------------------------------------------------
(* extract_resume_from_pdf: constants                                      *)

Fields ==
    {"title", "fullname", "email", "phone", "location", "summary", "skills",
     "experience", "education", "projects", "certifications", "awards",
     "languages", "linkedin", "github", "website", "dob", "nationality",
     "softskills", "career_objective"}

\* mutant: the record starts with the title the title stage tests for
get_default_fields_my_resume ==
    [title |-> "My Resume", fullname |-> "Your Name", email |-> "", phone |-> "",
     location |-> "",
     summary |-> "PDF loaded successfully! Edit your details above.",
     skills |-> "", experience |-> "", education |-> "", projects |-> "",
     certifications |-> "", awards |-> "", languages |-> "", linkedin |-> "",
     github |-> "", website |-> "", dob |-> "", nationality |-> "",
     softskills |-> "", career_objective |-> ""]

\* mutant: the record has the 16 keys its name announces
get_default_fields_16_keys ==
    [title |-> "", fullname |-> "Your Name", email |-> "", phone |-> "",
     location |-> "",
     summary |-> "PDF loaded successfully! Edit your details above.",
     skills |-> "", experience |-> "", education |-> "", projects |-> "",
     certifications |-> "", awards |-> "", languages |-> "", linkedin |-> "",
     github |-> "", website |-> ""]

get_default_16_fields ==
    [title |-> "", fullname |-> "Your Name", email |-> "", phone |-> "",
     location |-> "",
     summary |-> "PDF loaded successfully! Edit your details above.",
     skills |-> "", experience |-> "", education |-> "", projects |-> "",
     certifications |-> "", awards |-> "", languages |-> "", linkedin |-> "",
     github |-> "", website |-> "", dob |-> "", nationality |-> "",
     softskills |-> "", career_objective |-> ""]

cities ==
    <<"ahmedabad", "gandhinagar", "vadodara", "surat", "delhi", "mumbai",
      "bangalore", "pune", "hyderabad", "kolkata", "firozabad", "india",
      "gujarat", "usa", "uk", "canada">>

\* r"career\s+objective", also the pattern tested again at line 362
career_objective_pattern == Pat(FALSE, <<Lit("career"), WsPlus, Lit("objective")>>, FALSE)

section_patterns ==
    [summary |-> <<
        career_objective_pattern,
        Pat(TRUE, <<Lit("objective")>>, TRUE),
        Pat(FALSE, <<Lit("professional"), WsPlus, Lit("summary")>>, FALSE),
        Pat(FALSE, <<Lit("summary")>>, FALSE),
        Pat(FALSE, <<Lit("profile")>>, FALSE),
        Pat(FALSE, <<Lit("about"), WsPlus, Lit("me")>>, FALSE) >>,
     skills |-> <<
        Pat(FALSE, <<Lit("technical"), WsPlus, Lit("skills")>>, FALSE),
        Pat(TRUE, <<Lit("skills")>>, TRUE),
        Pat(FALSE, <<Lit("core"), WsPlus, Lit("competencies")>>, FALSE),
        Pat(FALSE, <<Lit("key"), WsPlus, Lit("skills")>>, FALSE),
        Pat(FALSE, <<Lit("skills"), WsPlus, Lit("and"), WsPlus, Lit("tools")>>, FALSE) >>,
     experience |-> <<
        Pat(FALSE, <<Lit("professional"), WsPlus, Lit("experience")>>, FALSE),
        Pat(FALSE, <<Lit("work"), WsPlus, Lit("experience")>>, FALSE),
        Pat(TRUE, <<Lit("experience")>>, TRUE),
        Pat(FALSE, <<Lit("employment"), WsPlus, Lit("history")>>, FALSE),
        Pat(FALSE, <<Lit("career"), WsPlus, Lit("history")>>, FALSE),
        Pat(FALSE, <<Lit("internship"), WsPlus, Lit("experience")>>, FALSE) >>,
     projects |-> <<
        Pat(FALSE, <<Lit("academic"), WsPlus, Lit("projects")>>, FALSE),
        Pat(FALSE, <<Lit("key"), WsPlus, Lit("projects")>>, FALSE),
        Pat(TRUE, <<Lit("projects")>>, TRUE),
        Pat(FALSE, <<Lit("personal"), WsPlus, Lit("projects")>>, FALSE) >>,
     education |-> <<
        Pat(TRUE, <<Lit("education")>>, TRUE),
        Pat(FALSE, <<Lit("academic"), WsPlus, Lit("background")>>, FALSE),
        Pat(FALSE, <<Lit("educational"), WsPlus, Lit("qualification")>>, FALSE),
        Pat(FALSE, <<Lit("academic"), WsPlus, Lit("qualifications")>>, FALSE),
        Pat(FALSE, <<Lit("education"), WsPlus, Lit("details")>>, FALSE) >>,
     certifications |-> <<
        Pat(TRUE, <<Lit("certification"), Opt("s")>>, TRUE),
        Pat(FALSE, <<Lit("professional"), WsPlus, Lit("certification"), Opt("s")>>, FALSE),
        Pat(FALSE, <<Lit("license"), Opt("s")>>, FALSE),
        Pat(FALSE, <<Lit("courses")>>, FALSE) >>,
     languages |-> <<
        Pat(FALSE, <<Lit("language"), Opt("s"), WsPlus, Lit("known")>>, FALSE),
        Pat(TRUE, <<Lit("language"), Opt("s")>>, TRUE) >>,
     awards |-> <<
        Pat(TRUE, <<Lit("awards")>>, TRUE),
        Pat(FALSE, <<Lit("achievements")>>, FALSE),
        Pat(FALSE, <<Lit("honors")>>, FALSE) >>]

SectionFields == DOMAIN section_patterns

\* r"^page\s+\d+"
page_marker_pattern == Pat(TRUE, <<Lit("page"), WsPlus, DigitPlus>>, FALSE)

degree_words == <<"b.tech", "b.e", "bachelor", "master", "phd", "degree">>

title_keywords ==
    <<"engineer", "developer", "analyst", "manager", "specialist", "consultant",
      "architect", "designer", "scientist", "executive", "coordinator">>

\* any(w in low for w in words)
ContainsAny(low, words) == \E k \in 1..Len(words) : Contains(low, words[k])

\* the 1-based position of the first element of seq[:n] that passes, 0 if none
FirstWhere(seq, n, Passes(_)) ==
    LET c == {i \in 1..Min2(n, Len(seq)) : Passes(seq[i])}
    IN  IF c = {} THEN 0 ELSE MinOf(c)

\* [x for x in seq if passes(x)]
Filter(seq, Passes(_)) ==
    LET idx    == {i \in 1..Len(seq) : Passes(seq[i])}
        nth(k) == CHOOSE i \in idx : Cardinality({j \in idx : j < i}) = k - 1
    IN  [k \in 1..Cardinality(idx) |-> seq[nth(k)]]

-----------------------------------------------------------------------------
(* extract_resume_from_pdf: the stages                                     *)

summary_cap == 1000
skills_cap == 500
experience_cap == 1500
education_cap == 1000
projects_cap == 800
certifications_cap == 800
languages_cap == 300
awards_cap == 500

\* lines 217-222: the text of the pages, each non-empty one after a "\n"
RECURSIVE PagesText(_)
PagesText(pages) ==
    IF Len(pages) = 0 THEN ""
    ELSE PagesText(SubSeq(pages, 1, Len(pages) - 1))
         \o (IF pages[Len(pages)] # "" THEN "\n" \o pages[Len(pages)] ELSE "")

\* lines 234-239: the test a line passes to be taken as the name
IsNameLine(ln) ==
    /\ ~(Contains(ln, "@") \/ Contains(Lower(ln), "http") \/ Contains(ln, "+91"))
    /\ WordCount(ln) >= 2 /\ WordCount(ln) <= 4 /\ Len(ln) < 50
    /\ LET alpha_count ==
               Cardinality({i \in 1..Len(ln) : Char(ln, i) \in (Letters \cup Whitespace)})
       IN  alpha_count > 0 /\ alpha_count * 10 > 7 * Len(ln)

\* lines 233-241
DetectName(ls, res) ==
    LET i == FirstWhere(ls, 15, IsNameLine)
    IN  IF i = 0 THEN res ELSE [res EXCEPT !.fullname = ls[i]]

\* lines 244-246
DetectEmail(text, res) ==
    LET m == SearchEmail(text)
    IN  IF m = "" THEN res ELSE [res EXCEPT !.email = m]

\* lines 249-261
DetectPhone(text, res) ==
    LET phone == SearchPhone(text)
    IN  IF phone = "" THEN res ELSE [res EXCEPT !.phone = phone]

\* line 273
IsCityLine(ln) == ContainsAny(Lower(ln), cities) /\ Len(ln) < 80

\* line 280
IsCommaLine(ln) == Contains(ln, ",") /\ \E i \in 1..Len(ln) : Char(ln, i) \in Letters

\* lines 264-282
DetectLocation(ls, res) ==
    LET i == FirstWhere(ls, Len(ls), IsCityLine)
        j == FirstWhere(ls, 10, IsCommaLine)
    IN  IF i # 0 THEN [res EXCEPT !.location = ls[i]]
        ELSE IF j # 0 THEN [res EXCEPT !.location = ls[j]]
        ELSE res

\* lines 285-293
DetectSocial(text, res) ==
    LET li  == SearchHost(text, "linkedin.com")
        gh  == SearchHost(text, "github.com")
        r1  == IF li = "" THEN res ELSE [res EXCEPT !.linkedin = WithScheme(li)]
    IN  IF gh = "" THEN r1 ELSE [r1 EXCEPT !.github = WithScheme(gh)]

\* lines 332-334: the line, given in lower case, matches one of the field's patterns
IsHeaderOf(field, low) ==
    \E k \in 1..Len(section_patterns[field]) : FindIn(section_patterns[field][k], low)

\* lines 331-337: the 1-based position of the first line from the i-th on that
\* is a header of the field, 0 if there is none
RECURSIVE FirstHeaderFrom(_, _, _)
FirstHeaderFrom(field, lows, i) ==
    IF i > Len(lows) THEN 0
    ELSE IF IsHeaderOf(field, lows[i]) THEN i
    ELSE FirstHeaderFrom(field, lows, i + 1)

\* lines 329-337: field -> 0-based index of the first line matching one of its patterns
LocateHeaders(ls) ==
    LET lows  == [i \in 1..Len(ls) |-> Lower(ls[i])]
        first == [f \in SectionFields |-> FirstHeaderFrom(f, lows, 1)]
    IN  [f \in {g \in SectionFields : first[g] # 0} |-> first[f] - 1]

\* the keys of section_positions in insertion order (the order of section_patterns)
FieldOrder ==
    <<"summary", "skills", "experience", "projects", "education",
      "certifications", "languages", "awards">>

\* lines 344-346: the loop over section_positions.items(), from its k-th item on
RECURSIVE EndAfter(_, _, _, _)
EndAfter(pos, k, start, end) ==
    IF k > Len(FieldOrder) THEN end
    ELSE IF FieldOrder[k] \in DOMAIN pos
            /\ pos[FieldOrder[k]] > start /\ pos[FieldOrder[k]] < end
         THEN EndAfter(pos, k + 1, start, pos[FieldOrder[k]])
    ELSE EndAfter(pos, k + 1, start, end)

\* lines 342-347: <<start, end>> of the slice lines[start:end] of a detected field
SliceBounds(ls, pos, field_name, max_lines) ==
    LET start == pos[field_name] + 1
    IN  <<start, Min2(EndAfter(pos, 1, start, Len(ls)), start + max_lines)>>

\* lines 351-354
IsContentLine(ln) == ~(Len(ln) < 10) /\ ~re_match(page_marker_pattern, ln)

\* lines 339-356
get_section_content(ls, pos, field_name, max_lines) ==
    IF field_name \notin DOMAIN pos THEN <<>>
    ELSE LET b == SliceBounds(ls, pos, field_name, max_lines)
         IN  Filter(Slice(ls, b[1], b[2]), IsContentLine)

\* lines 358-401: the max_lines each field's slice is asked with
section_max_lines ==
    [summary |-> 10, skills |-> 20, experience |-> 30, education |-> 20,
     projects |-> 30, certifications |-> 15, languages |-> 5, awards |-> 15]

\* s[:n]
Truncate(s, n) == Slice(s, 0, n)

\* line 362
HasCareerObjective(ls) == \E i \in 1..Len(ls) : re_search(career_objective_pattern, ls[i])

\* mutant: the summary is copied only when the summary header itself is the
\* "career objective" line
AssembleSummaryHeaderOnly(ls, pos, res) ==
    LET summary_lines == get_section_content(ls, pos, "summary", section_max_lines.summary)
        full_summary  == Truncate(Join(summary_lines, " "), summary_cap)
    IN  IF summary_lines = <<>> THEN res
        ELSE IF re_search(career_objective_pattern, ls[pos.summary + 1])
             THEN [res EXCEPT !.summary = full_summary, !.career_objective = full_summary]
        ELSE [res EXCEPT !.summary = full_summary]

\* lines 358-363
AssembleSummary(ls, pos, res) ==
    LET summary_lines == get_section_content(ls, pos, "summary", section_max_lines.summary)
        full_summary  == Truncate(Join(summary_lines, " "), summary_cap)
    IN  IF summary_lines = <<>> THEN res
        ELSE IF HasCareerObjective(ls)
             THEN [res EXCEPT !.summary = full_summary, !.career_objective = full_summary]
        ELSE [res EXCEPT !.summary = full_summary]

\* mutant: tokens of two characters are kept
IsSkillTokenFrom2(tok) == 2 <= Len(tok) /\ Len(tok) < 80

\* line 369: 2 < len(s.strip()) < 80
IsSkillToken(tok) == 2 < Len(tok) /\ Len(tok) < 80

\* [s.strip() for s in seq]
StripEach(seq) == [k \in 1..Len(seq) |-> Strip(seq[k])]

\* mutant: the first 30 pieces are taken before the short and long ones are dropped
SkillsValueTakeFirst(skills_text) ==
    LET skills == Filter(Take(StripEach(Pieces(skills_text, {",", "|", "/", "\n"})), 30),
                         IsSkillToken)
    IN  Truncate(Join(skills, ", "), skills_cap)

\* lines 368-370; the split class [,|/\n] and the bullet character, which no
\* modelled text contains
SkillsValue(skills_text) ==
    LET skills == Filter(StripEach(Pieces(skills_text, {",", "|", "/", "\n"})), IsSkillToken)
    IN  Truncate(Join(Take(skills, 30), ", "), skills_cap)

\* lines 365-370
AssembleSkills(ls, pos, res) ==
    LET skills_lines == get_section_content(ls, pos, "skills", section_max_lines.skills)
    IN  IF skills_lines = <<>> THEN res
        ELSE [res EXCEPT !.skills = SkillsValue(Join(skills_lines, " "))]

\* line 375
IsExperienceLine(ln) == Contains(Lower(ln), "experience") /\ Len(ln) < 70

\* lines.index(ln): the 0-based index of the first element equal to ln
IndexOf(ls, ln) == MinOf({i \in 1..Len(ls) : ls[i] = ln}) - 1

\* mutant: the fallback takes lines[idx+1 : idx+14], one line fewer
ExperienceLinesOneFewer(ls, pos) ==
    LET exp_lines == get_section_content(ls, pos, "experience", section_max_lines.experience)
        i         == FirstWhere(ls, Len(ls), IsExperienceLine)
    IN  IF exp_lines # <<>> THEN exp_lines
        ELSE IF i = 0 THEN <<>>
        ELSE LET idx == IndexOf(ls, ls[i]) IN Slice(ls, idx + 1, idx + 14)

\* lines 372-378: the lines the experience is built from
ExperienceLines(ls, pos) ==
    LET exp_lines == get_section_content(ls, pos, "experience", section_max_lines.experience)
        i         == FirstWhere(ls, Len(ls), IsExperienceLine)
    IN  IF exp_lines # <<>> THEN exp_lines
        ELSE IF i = 0 THEN <<>>
        ELSE LET idx == IndexOf(ls, ls[i]) IN Slice(ls, idx + 1, idx + 15)

\* mutant: the experience is stored without the [:1500]
AssembleExperienceUncapped(ls, pos, res) ==
    LET exp_lines == ExperienceLines(ls, pos)
    IN  IF exp_lines = <<>> THEN res
        ELSE [res EXCEPT !.experience = Join(exp_lines, "\n")]

\* lines 372-380
AssembleExperience(ls, pos, res) ==
    LET exp_lines == ExperienceLines(ls, pos)
    IN  IF exp_lines = <<>> THEN res
        ELSE [res EXCEPT !.experience = Truncate(Join(exp_lines, "\n"), experience_cap)]

\* line 385
IsDegreeLine(ln) == ContainsAny(Lower(ln), degree_words)

\* lines 382-385: the lines the education is built from
EducationLines(ls, pos) ==
    LET edu_lines == get_section_content(ls, pos, "education", section_max_lines.education)
    IN  IF edu_lines # <<>> THEN edu_lines ELSE Filter(ls, IsDegreeLine)

\* lines 382-387
AssembleEducation(ls, pos, res) ==
    LET edu_lines == EducationLines(ls, pos)
    IN  IF edu_lines = <<>> THEN res
        ELSE [res EXCEPT !.education = Truncate(Join(edu_lines, "\n"), education_cap)]

\* lines 389-391
AssembleProjects(ls, pos, res) ==
    LET proj_lines == get_section_content(ls, pos, "projects", section_max_lines.projects)
    IN  IF proj_lines = <<>> THEN res
        ELSE [res EXCEPT !.projects = Truncate(Join(proj_lines, "\n"), projects_cap)]

\* lines 393-395
AssembleCertifications(ls, pos, res) ==
    LET cert_lines == get_section_content(ls, pos, "certifications", section_max_lines.certifications)
    IN  IF cert_lines = <<>> THEN res
        ELSE [res EXCEPT !.certifications = Truncate(Join(cert_lines, "\n"), certifications_cap)]

\* lines 397-399
AssembleLanguages(ls, pos, res) ==
    LET lang_lines == get_section_content(ls, pos, "languages", section_max_lines.languages)
    IN  IF lang_lines = <<>> THEN res
        ELSE [res EXCEPT !.languages = Truncate(Join(lang_lines, ", "), languages_cap)]

\* lines 401-403
AssembleAwards(ls, pos, res) ==
    LET award_lines == get_section_content(ls, pos, "awards", section_max_lines.awards)
    IN  IF award_lines = <<>> THEN res
        ELSE [res EXCEPT !.awards = Truncate(Join(award_lines, "\n"), awards_cap)]

\* line 412
IsTitleLine(ln) == ContainsAny(Lower(ln), title_keywords) /\ Len(ln) < 100

\* lines 415-421: the fallback on the skills text, taken when the title is "My Resume"
TitleFallback(res) ==
    IF res.title = "My Resume"
    THEN IF Contains(Lower(res.skills), "data") THEN [res EXCEPT !.title = "Data Professional"]
         ELSE IF Contains(Lower(res.skills), "python")
              THEN [res EXCEPT !.title = "Software Developer"]
         ELSE [res EXCEPT !.title = "Professional"]
    ELSE res

\* lines 405-421
InferTitle(ls, res) ==
    IF res.title = "" \/ res.title = "My Resume"
    THEN LET i == FirstWhere(ls, 25, IsTitleLine)
         IN  TitleFallback(IF i = 0 THEN res ELSE [res EXCEPT !.title = ls[i]])
    ELSE res

-----------------------------------------------------------------------------
(* The /ats-score route and the steps of extract_resume_from_pdf           *)

\* the stages of the try block after the text was acquired, in program order
Stages ==
    <<"name", "email", "phone", "location", "social", "headers", "summary",
      "skills", "experience", "education", "projects", "certifications",
      "languages", "awards", "title">>

StageSet == {Stages[k] : k \in 1..Len(Stages)}

\* the position after stage st
NextPc(st) ==
    LET k == CHOOSE i \in 1..Len(Stages) : Stages[i] = st
    IN  IF k = Len(Stages) THEN "return" ELSE Stages[k + 1]

\* str.endswith
EndsWith(s, p) == Len(p) <= Len(s) /\ SubSeq(s, Len(s) - Len(p) + 1, Len(s)) = p

\* line 755, @login_required: a request without a session is sent to the login
\* page and ats_score is not entered
AtsScoreLoginRequired ==
    /\ pc = "ats_score"
    /\ request.user \notin sessions
    /\ response' = "redirect: login"
    /\ pc' = "responded"
    /\ UNCHANGED <<request, all_text, lines, result, section_positions, raised>>
    /\ UNCHANGED appvars

\* lines 755-765: for a logged-in user GET renders the form; a POST without a
\* file, or with a file whose name does not end in .pdf, is answered by a flash
\* and a redirect
AtsScoreReject ==
    /\ pc = "ats_score"
    /\ request.user \in sessions
    /\ \/ /\ request.method = "GET"
          /\ response' = "form"
       \/ /\ request.method = "POST"
          /\ request.filename = ""
          /\ response' = "flash: Please upload a resume PDF"
       \/ /\ request.method = "POST"
          /\ request.filename # ""
          /\ ~EndsWith(Lower(request.filename), ".pdf")
          /\ response' = "flash: Only PDF files are allowed"
    /\ pc' = "responded"
    /\ UNCHANGED <<request, all_text, lines, result, section_positions, raised>>
    /\ UNCHANGED appvars

\* lines 755, 767-774, 215: the file of a logged-in user is saved and
\* extract_resume_from_pdf is entered
AtsScoreExtract ==
    /\ pc = "ats_score"
    /\ request.user \in sessions
    /\ request.method = "POST"
    /\ request.filename # ""
    /\ EndsWith(Lower(request.filename), ".pdf")
    /\ result' = get_default_16_fields
    /\ pc' = "open"
    /\ UNCHANGED <<request, all_text, lines, section_positions, raised, response>>
    /\ UNCHANGED appvars

\* lines 217-230: pdfplumber reads the pages; an unreadable file raises, and the
\* except clause of line 423 is taken; a text without a line returns the defaults
Acquire ==
    /\ pc = "open"
    /\ IF ~request.pdf.readable
       THEN /\ raised' = "open"
            /\ pc' = "return"
            /\ UNCHANGED <<all_text, lines>>
       ELSE /\ all_text' = Strip(PagesText(request.pdf.pages))
            /\ lines' = StripLines(SplitLines(all_text'))
            /\ pc' = IF all_text' = "" \/ lines' = <<>> THEN "return" ELSE "name"
            /\ UNCHANGED raised
    /\ UNCHANGED <<request, result, section_positions, response>>
    /\ UNCHANGED appvars

\* the result after stage st has run on the locals
StageResult(st, text, ls, pos, res) ==
    CASE st = "name"           -> DetectName(ls, res)
      [] st = "email"          -> DetectEmail(text, res)
      [] st = "phone"          -> DetectPhone(text, res)
      [] st = "location"       -> DetectLocation(ls, res)
      [] st = "social"         -> DetectSocial(text, res)
      [] st = "headers"        -> res
      [] st = "summary"        -> AssembleSummary(ls, pos, res)
      [] st = "skills"         -> AssembleSkills(ls, pos, res)
      [] st = "experience"     -> AssembleExperience(ls, pos, res)
      [] st = "education"      -> AssembleEducation(ls, pos, res)
      [] st = "projects"       -> AssembleProjects(ls, pos, res)
      [] st = "certifications" -> AssembleCertifications(ls, pos, res)
      [] st = "languages"      -> AssembleLanguages(ls, pos, res)
      [] st = "awards"         -> AssembleAwards(ls, pos, res)
      [] st = "title"          -> InferTitle(ls, res)

\* lines 232-421: one stage of the try block runs to its end
Stage ==
    /\ pc \in StageSet
    /\ result' = StageResult(pc, all_text, lines, section_positions, result)
    /\ section_positions' =
           IF pc = "headers" THEN LocateHeaders(lines) ELSE section_positions
    /\ pc' = NextPc(pc)
    /\ UNCHANGED <<request, all_text, lines, raised, response>>
    /\ UNCHANGED appvars

\* lines 285-293 cut short before line 293: the LinkedIn link is assigned, the
\* GitHub link is not
SocialHalf(text, res) ==
    LET li == SearchHost(text, "linkedin.com")
    IN  IF li = "" THEN res ELSE [res EXCEPT !.linkedin = WithScheme(li)]

\* lines 358-363 cut short before line 363: the summary is assigned, the career
\* objective is not
SummaryHalf(ls, pos, res) ==
    LET summary_lines == get_section_content(ls, pos, "summary", section_max_lines.summary)
        full_summary  == Truncate(Join(summary_lines, " "), summary_cap)
    IN  IF summary_lines = <<>> THEN res ELSE [res EXCEPT !.summary = full_summary]

\* the values result can hold when a statement of stage st is about to run:
\* that from before the stage, that between the two assignments of the stages
\* that assign twice, and that after the assignment of the stages in which a
\* statement follows it (the break of lines 241, 275 and 282, the test of line 415)
StagePartials(st, text, ls, pos, res) ==
    {res}
    \cup (CASE st = "name"     -> {DetectName(ls, res)}
            [] st = "location" -> {DetectLocation(ls, res)}
            [] st = "social"   -> {SocialHalf(text, res)}
            [] st = "summary"  -> {SummaryHalf(ls, pos, res)}
            [] st = "title"    ->
                   IF (res.title = "" \/ res.title = "My Resume")
                      /\ FirstWhere(ls, 25, IsTitleLine) # 0
                   THEN {InferTitle(ls, res)}
                   ELSE {}
            [] OTHER           -> {})

\* lines 329-337 cut short: the loop over section_patterns has run for the
\* first k fields
HeadersPartials(ls) ==
    LET all == LocateHeaders(ls)
    IN  {[f \in {FieldOrder[j] : j \in 1..k} \cap DOMAIN all |-> all[f]] :
            k \in 0..Len(FieldOrder)}

\* lines 423-424: an exception raised by a statement of a stage is caught;
\* result keeps what was assigned before that statement.  No statement of lines
\* 232-421 raises by itself on a text of str lines; the exception is one the
\* runtime raises, such as MemoryError
StageRaises ==
    /\ pc \in StageSet
    /\ result' \in StagePartials(pc, all_text, lines, section_positions, result)
    /\ section_positions' \in
           IF pc = "headers" THEN HeadersPartials(lines) ELSE {section_positions}
    /\ raised' = pc
    /\ pc' = "return"
    /\ UNCHANGED <<request, all_text, lines, response>>
    /\ UNCHANGED appvars

\* lines 426, 776-800: extract_resume_from_pdf returns result, and ats_score
\* scores it and renders the score page
AtsScoreRender ==
    /\ pc = "return"
    /\ response' = "score"
    /\ pc' = "responded"
    /\ UNCHANGED <<request, all_text, lines, result, section_positions, raised>>
    /\ UNCHANGED appvars

Next ==
    \/ AtsScoreLoginRequired
    \/ AtsScoreReject
    \/ AtsScoreExtract
    \/ Acquire
    \/ Stage
    \/ StageRaises
    \/ AtsScoreRender

-----------------------------------------------------------------------------
(* The requests the model is run on                                        *)

\* longest document, in lines, of the documents built from Vocabulary
MaxLines == 3

\* most filler lines of a padded document
MaxPad == 16

Vocabulary ==
    {" \t", "SUMMARY", "TECHNICAL SKILLS", "EXPERIENCE", "Python, Go, data tools",
     "5 years experience in logistics", "github.com/janedoe", "Senior Backend Engineer"}

\* the page texts of 1..MaxLines lines of Vocabulary
RECURSIVE VocabularyTexts(_)
VocabularyTexts(n) ==
    IF n = 0 THEN {}
    ELSE IF n = 1 THEN Vocabulary
    ELSE VocabularyTexts(n - 1)
         \cup {t \o "\n" \o v : t \in VocabularyTexts(n - 1), v \in Vocabulary}

\* the resume of the scenario of the specification
JaneDoeText ==
    "Jane Doe\njane.doe@email.com\n+91 9876543210\nBangalore, India\n\nSUMMARY\n"
    \o "Experienced backend engineer with 5 years building APIs.\n\nSKILLS\n"
    \o "Python, Go, SQL, Docker\n\nEXPERIENCE\n"
    \o "Backend Engineer at Foo Corp 2019-2024\nBuilt payment systems."

ScenarioTexts ==
    {JaneDoeText,
     "Jane Doe\nfind me at https://www.LinkedIn.com/in/jane-doe or github.com/janedoe\n"
        \o "also GitHub.com/Other and linkedin.com/in/other",
     "Ravi Kumar\nhttp://github.com/ravi linkedin.com\nPune",
     "Career Objective\nTo build reliable data systems at scale",
     "Career Objective\nPune",
     "SUMMARY\nSeasoned analyst of freight markets\nMy career  objective is growth",
     "Profile and Work Experience\nPROJECTS\nBuilt payment systems for banks",
     "Key Skills and Achievements\nPython, Go, data tools\nPage 2\nEDUCATION\nB.Tech in computing"}

Readable(pages) == [readable |-> TRUE, pages |-> pages]

Unreadable == [readable |-> FALSE, pages |-> <<>>]

SmallPdfs ==
    {Readable(<<t>>) : t \in VocabularyTexts(MaxLines) \cup ScenarioTexts}
    \cup {Readable(<<a, b>>) : a, b \in Vocabulary \cup {""}}
    \cup {Readable(<<>>), Readable(<<"">>), Readable(<<"\n \n">>), Unreadable}

\* the accounts at the start: two users have signed up
Accounts ==
    <<[fullname |-> "Asha Rao", email |-> "asha@example.com", password |-> "pw-asha"],
      [fullname |-> "Bo Lee", email |-> "bo@example.com", password |-> "pw-bo"]>>

\* the user whose browser holds a session when /ats-score is requested
LoggedIn == 1

\* a POST of the logged-in user
Post(filename, pdf) ==
    [method |-> "POST", user |-> LoggedIn, filename |-> filename, pdf |-> pdf]

\* the requests that do not reach the extractor: GET, no file, a name that is
\* no PDF's, browsers without a session; and one upper-case file name
OtherRequests ==
    {[method |-> "GET", user |-> LoggedIn, filename |-> "", pdf |-> Unreadable],
     Post("", Unreadable),
     Post("resume.docx", Readable(<<JaneDoeText>>)),
     Post("RESUME.PDF", Readable(<<JaneDoeText>>)),
     [method |-> "GET", user |-> 0, filename |-> "", pdf |-> Unreadable],
     [method |-> "POST", user |-> 2, filename |-> "resume.pdf",
      pdf |-> Readable(<<JaneDoeText>>)]}

\* a filler line: longer than 100 characters, four skill tokens, a degree word,
\* no header, city, title keyword or "experience"
PadLine ==
    "bachelor degree in applied things, second token of the list, "
    \o "third token of the list, fourth token of the same list"

\* a filler line that passes the content filter and is nothing else
ShortPadLine == "plain filler line"

\* n filler lines, each followed by a newline
RECURSIVE Padding(_, _)
Padding(line, n) == IF n = 0 THEN "" ELSE Padding(line, n - 1) \o line \o "\n"

PaddedHeads ==
    {"", "SUMMARY\n", "SUMMARY\n5 years experience in logistics\n", "SKILLS\n", "EXPERIENCE\n", "EDUCATION\n", "PROJECTS\n",
     "CERTIFICATIONS\n", "LANGUAGES\n", "AWARDS\n", "5 years experience in logistics\n"}

PaddedTails ==
    {"", "PROJECTS", "5 years experience in logistics"}

\* a first line, 0..MaxPad filler lines and a last line
PaddedPdfs ==
    {Readable(<<h \o Padding(p, n) \o t>>) :
        h \in PaddedHeads, p \in {PadLine, ShortPadLine}, n \in 0..MaxPad, t \in PaddedTails}

\* before the first request to the resume pages
NoExchange ==
    [route |-> "", method |-> "", user |-> 0, resume_id |-> 0, form |-> <<>>,
     status |-> 0, to |-> "", accessed |-> {}]

\* two accounts and the session of one of them; /ats-score is requested
InitWith(pdfs) ==
    /\ request \in {Post("resume.pdf", f) : f \in pdfs} \cup OtherRequests
    /\ pc = "ats_score"
    /\ all_text = ""
    /\ lines = <<>>
    /\ result = get_default_16_fields
    /\ section_positions = <<>>
    /\ raised = "none"
    /\ response = "none"
    /\ users = Accounts
    /\ sessions = {LoggedIn}
    /\ resumes = <<>>
    /\ http = NoExchange
    /\ served = 0

Init == InitWith(SmallPdfs)

Spec == Init /\ [][Next]_vars

InitPadded == InitWith(PaddedPdfs)

SpecPadded == InitPadded /\ [][Next]_vars

\* a line of a skills section: the separators , | and /, padded tokens, and
\* tokens of one and two characters
SkillLine == "Python, Go | SQL/Docker,  C , Kubernetes"

\* a skills header, 0..MaxPad lines of one kind and a last line
SkillsPdfs ==
    {Readable(<<h \o Padding(p, n) \o t>>) :
        h \in {"TECHNICAL SKILLS\n", "Skills\n"}, p \in {SkillLine, PadLine, ShortPadLine},
        n \in 0..MaxPad, t \in {"", "PROJECTS"}}

InitSkills == InitWith(SkillsPdfs)

SpecSkills == InitSkills /\ [][Next]_vars

-----------------------------------------------------------------------------
(* The resume pages: accounts, sessions and the routes on Resume rows      *)

\* a column that holds NULL, None in Python; no modelled text is this string
None == "<NULL>"

\* Python's truth of a str or None
Truthy(a) == a # "" /\ a # None

\* Python's `a or b` on str and None
Or(a, b) == IF Truthy(a) THEN a ELSE b

\* dict.get(key, default)
Get(d, key, default) == IF key \in DOMAIN d THEN d[key] ELSE default

\* lines 123-166: the columns of Resume that the routes assign; the ATS and
\* job-match columns and the timestamps are left out
ResumeColumns ==
    {"user_id", "title", "template_name", "fullname", "email", "phone", "location",
     "profile_pic", "summary", "skills", "experience", "education", "projects",
     "certifications", "awards", "languages", "linkedin", "github", "website",
     "dob", "nationality", "softskills", "career_objective"}

\* Resume(**given): the columns not given are NULL, template_name has a default
Resume(given) ==
    [c \in ResumeColumns |->
        IF c \in DOMAIN given THEN given[c]
        ELSE IF c = "template_name" THEN "template1"
        ELSE None]

\* the integer primary key of a new row: one more than the largest key in use
NewId(table) ==
    IF DOMAIN table = {} THEN 1
    ELSE (CHOOSE i \in DOMAIN table : \A j \in DOMAIN table : j <= i) + 1

\* db.session.add(row); db.session.commit()
Insert(table, row) ==
    [i \in DOMAIN table \cup {NewId(table)} |-> IF i \in DOMAIN table THEN table[i] ELSE row]

\* db.session.delete(row); db.session.commit()
Delete(table, id) == [i \in DOMAIN table \ {id} |-> table[i]]

\* mutant: the row is looked up by its id alone
first_by_id(u, resume_id) == resume_id \in DOMAIN resumes

\* Resume.query.filter_by(id=resume_id, user_id=current_user.id).first(): a row is found
first_or_404(u, resume_id) ==
    resume_id \in DOMAIN resumes /\ resumes[resume_id].user_id = u

\* Resume.query.filter_by(user_id=current_user.id).all(), as a set of ids
ResumesOf(u) == {i \in DOMAIN resumes : resumes[i].user_id = u}

\* the pairs <<id, user_id>> of the rows a handler obtained
Rows(ids) == {<<i, resumes[i].user_id>> : i \in ids}

\* User.query.filter_by(email=email).first(): the id of the row, 0 for None
UserByEmail(email) ==
    IF \E i \in DOMAIN users : users[i].email = email
    THEN CHOOSE i \in DOMAIN users : users[i].email = email
    ELSE 0

\* lines 116-120: set_password and check_password, the hash modelled by the password
check_password(user, password) == user.password = password

\* str.rfind(c) + 1: the 1-based position of the last c in s, 0 if there is none
LastIndexOf(s, c) ==
    LET at == {i \in 1..Len(s) : Char(s, i) = c}
    IN  IF at = {} THEN 0 ELSE CHOOSE i \in at : \A j \in at : j <= i

\* os.path.splitext(filename)[1]: from the last dot on, when that dot comes
\* after the last "/" and after a character of the last component that is no dot
SplitExt(filename) ==
    LET sepIndex == LastIndexOf(filename, "/")
        dotIndex == LastIndexOf(filename, ".")
    IN  IF dotIndex > sepIndex
           /\ \E filenameIndex \in (sepIndex + 1)..(dotIndex - 1) :
                  Char(filename, filenameIndex) # "."
        THEN SubSeq(filename, dotIndex, Len(filename))
        ELSE ""

\* line 661
upload_extensions == {".pdf", ".doc", ".docx", ".ppt", ".pptx"}

\* lines 533 and 536: '. '.join(text.split('.'))
Reflow(text) == Join(Pieces(text, {"."}), ". ")

\* services.ats_normalizer: free text re-delimited into a comma list
normalize_skills(text) == Join(StripLines(Pieces(text, {","})), ", ")

normalize_softskills(text) == Join(StripLines(Pieces(text, {","})), ", ")

normalize_languages_spoken(text) ==
    Join(StripLines(Pieces(text, {","})), ", ")

\* services.ats_normalizer: block text with trimmed lines and no empty line
normalize_block_section(text) == Join(StripLines(SplitLines(text)), "\n")

\* services.ats_normalizer: text that is no date comes back trimmed
normalize_date(text) == Strip(text)

\* services.text_extractor: what the parser returns for an uploaded file, the
\* 20-key mapping the file was found to hold
extractresumefrompdf(file) == file.parsed

\* the keys of the edit form
FormKeys ==
    {"title", "fullname", "email", "phone", "location", "dob", "nationality", "summary",
     "careerobjective", "skills", "softskills", "languages", "experience", "education",
     "projects", "certifications", "awards", "linkedin", "github", "website", "profile_pic"}

\* a submitted form: the fields not given are submitted empty
FormOf(given) == [k \in FormKeys |-> IF k \in DOMAIN given THEN given[k] ELSE ""]

\* the characters of s that are in class, in their order
RECURSIVE KeepChars(_, _)
KeepChars(s, class) ==
    IF Len(s) = 0 THEN ""
    ELSE IF Len(s) = 1 THEN (IF s \in class THEN s ELSE "")
    ELSE LET h == Len(s) \div 2
         IN  KeepChars(SubSeq(s, 1, h), class) \o KeepChars(SubSeq(s, h + 1, Len(s)), class)

\* lines 552 and 667, werkzeug's secure_filename on an ASCII name: "/" becomes
\* a blank, the words are joined by "_", the characters outside [A-Za-z0-9_.-]
\* (the word characters, the dot and the hyphen) are dropped, and the dots and underscores at both ends are stripped
secure_filename(filename) ==
    LET spaced == Join(Pieces(filename, {"/"}), " ")
        words  == Filter(Pieces(spaced, Whitespace), LAMBDA w : w # "")
        kept   == KeepChars(Join(words, "_"), WordChars \cup {".", "-"})
        lead   == RunLen(kept, 1, {".", "_"})
        trail  == RunLenBack(kept, Len(kept), {".", "_"})
    IN  IF lead = Len(kept) THEN "" ELSE SubSeq(kept, lead + 1, Len(kept) - trail)

\* lines 552-558: the name the uploaded picture is saved under; now is
\* datetime.now().strftime('%Y%m%d_%H%M%S')
PictureName(u, resume_id, now, filename) ==
    secure_filename(ToString(u) \o "_" \o ToString(resume_id) \o "_" \o now
                    \o "_" \o filename)

\* lines 521-558: the row after the edit form was saved
EditedRow(u, resume_id, row, form, now) ==
    LET dob_raw             == Or(form.dob, row.dob)
        summary_raw         == Or(form.summary, Or(row.summary, ""))
        careerobjective_raw == Or(form.careerobjective, Or(row.career_objective, ""))
    IN  [row EXCEPT
            !.title = Or(form.title, Or(row.title, "My Resume")),
            !.fullname = Or(form.fullname, row.fullname),
            !.email = Or(form.email, row.email),
            !.phone = Or(form.phone, row.phone),
            !.location = Or(form.location, row.location),
            !.dob = IF Truthy(dob_raw) THEN normalize_date(dob_raw) ELSE row.dob,
            !.nationality = Strip(Or(form.nationality, Or(row.nationality, ""))),
            !.summary = IF Truthy(summary_raw) THEN Reflow(summary_raw) ELSE "",
            !.career_objective =
                IF Truthy(careerobjective_raw) THEN Reflow(careerobjective_raw) ELSE "",
            !.skills = normalize_skills(Or(form.skills, Or(row.skills, ""))),
            !.softskills = normalize_softskills(Or(form.softskills, Or(row.softskills, ""))),
            !.languages =
                normalize_languages_spoken(Or(form.languages, Or(row.languages, ""))),
            !.experience =
                normalize_block_section(Or(form.experience, Or(row.experience, ""))),
            !.education = normalize_block_section(Or(form.education, Or(row.education, ""))),
            !.projects = normalize_block_section(Or(form.projects, Or(row.projects, ""))),
            !.certifications =
                normalize_block_section(Or(form.certifications, Or(row.certifications, ""))),
            !.awards = normalize_block_section(Or(form.awards, Or(row.awards, ""))),
            !.linkedin = Or(form.linkedin, row.linkedin),
            !.github = Or(form.github, row.github),
            !.website = Or(form.website, row.website),
            !.profile_pic =
                IF form.profile_pic # ""
                THEN PictureName(u, resume_id, now, form.profile_pic)
                ELSE row.profile_pic]

\* lines 698-734: the row uploadpdf creates from the parsed mapping
ImportedRow(u, parsed) ==
    Resume([user_id |-> u,
            template_name |-> "template1",
            title |-> Or(Get(parsed, "title", None), "Imported Resume"),
            fullname |-> Get(parsed, "fullname", ""),
            email |-> Get(parsed, "email", ""),
            phone |-> Get(parsed, "phone", ""),
            location |-> Get(parsed, "location", ""),
            summary |-> Get(parsed, "summary", ""),
            career_objective |-> Get(parsed, "careerobjective", ""),
            skills |-> Get(parsed, "skills", ""),
            softskills |-> Get(parsed, "softskills", ""),
            experience |-> Get(parsed, "experience", ""),
            education |-> Get(parsed, "education", ""),
            projects |-> Get(parsed, "projects", ""),
            certifications |-> Get(parsed, "certifications", ""),
            awards |-> Get(parsed, "awards", ""),
            languages |-> Get(parsed, "languages", ""),
            linkedin |-> Get(parsed, "linkedin", ""),
            github |-> Get(parsed, "github", ""),
            website |-> Get(parsed, "website", ""),
            dob |-> Get(parsed, "dob", ""),
            nationality |-> Get(parsed, "nationality", "")])

\* lines 810-813: the user's rows in key order, the i-th retitled when its
\* title is 'My Resume'
FixedTitles(u) ==
    LET mine    == ResumesOf(u)
        nth(id) == Cardinality({j \in mine : j <= id})
    IN  [id \in DOMAIN resumes |->
            IF id \in mine /\ resumes[id].title = "My Resume"
            THEN [resumes[id] EXCEPT !.title = "My Resume #" \o ToString(nth(id))]
            ELSE resumes[id]]

\* most requests to the resume pages in one run
MaxRequests == 3

\* the answer to a request is recorded; the locals of /ats-score are not touched
Answer(route, method, u, resume_id, form, status, to, accessed) ==
    /\ served < MaxRequests
    /\ http' = [route |-> route, method |-> method, user |-> u, resume_id |-> resume_id,
                form |-> form, status |-> status, to |-> to, accessed |-> accessed]
    /\ served' = served + 1
    /\ UNCHANGED atsvars

\* @login_required: a request without a session is sent to the login page
LoginRequired(route, u) ==
    /\ u \notin sessions
    /\ Answer(route, "GET", u, 0, <<>>, 302, "login", {})
    /\ UNCHANGED <<users, sessions, resumes>>

\* lines 434-456
Signup(method, full_name, email, password) ==
    /\ \/ /\ method = "GET"
          /\ Answer("signup", method, 0, 0, <<>>, 200, "", {})
          /\ UNCHANGED users
       \/ /\ method = "POST"
          /\ full_name = ""
          /\ Answer("signup", method, 0, 0, <<>>, 400, "", {})
          /\ UNCHANGED users
       \/ /\ method = "POST"
          /\ full_name # ""
          /\ UserByEmail(email) # 0
          /\ Answer("signup", method, 0, 0, <<>>, 302, "signup", {})
          /\ UNCHANGED users
       \/ /\ method = "POST"
          /\ full_name # ""
          /\ UserByEmail(email) = 0
          /\ users' = Insert(users, [fullname |-> full_name, email |-> email,
                                     password |-> password])
          /\ Answer("signup", method, 0, 0, <<>>, 302, "login", {})
    /\ UNCHANGED <<sessions, resumes>>

\* lines 459-472
Login(method, email, password) ==
    LET user  == UserByEmail(email)
        valid == IF user = 0 THEN FALSE ELSE check_password(users[user], password)
    IN  /\ \/ /\ method = "POST"
              /\ valid
              /\ sessions' = sessions \cup {user}
              /\ Answer("login", method, user, 0, <<>>, 302, "dashboard", {})
           \/ /\ ~(method = "POST" /\ valid)
              /\ Answer("login", method, 0, 0, <<>>, 200, "", {})
              /\ UNCHANGED sessions
        /\ UNCHANGED <<users, resumes>>

\* lines 475-479
Logout(u) ==
    /\ u \in sessions
    /\ sessions' = sessions \ {u}
    /\ Answer("logout", "GET", u, 0, <<>>, 302, "home", {})
    /\ UNCHANGED <<users, resumes>>

\* lines 497-513
NewResume(u, template) ==
    /\ u \in sessions
    /\ resumes' = Insert(resumes,
           Resume([user_id |-> u,
                   title |-> "New Resume - " \o users[u].fullname,
                   template_name |-> template,
                   fullname |-> Or(users[u].fullname, ""),
                   email |-> users[u].email,
                   dob |-> "",
                   nationality |-> "Indian",
                   softskills |-> "",
                   career_objective |-> ""]))
    /\ Answer("new_resume", "GET", u, NewId(resumes), <<>>, 302, "edit_resume",
              {<<NewId(resumes), u>>})
    /\ UNCHANGED <<users, sessions>>

\* lines 647-749
UploadPdf(u, file) ==
    /\ u \in sessions
    /\ \/ /\ ~file.present \/ file.filename = ""
          /\ Answer("uploadpdf", "POST", u, 0, <<>>, 302, "dashboard", {})
          /\ UNCHANGED resumes
       \/ /\ file.present
          /\ file.filename # ""
          /\ Lower(SplitExt(file.filename)) \notin upload_extensions
          /\ Answer("uploadpdf", "POST", u, 0, <<>>, 302, "dashboard", {})
          /\ UNCHANGED resumes
       \/ /\ file.present
          /\ file.filename # ""
          /\ Lower(SplitExt(file.filename)) \in upload_extensions
          /\ ~file.parses
          /\ Answer("uploadpdf", "POST", u, 0, <<>>, 302, "dashboard", {})
          /\ UNCHANGED resumes
       \/ /\ file.present
          /\ file.filename # ""
          /\ Lower(SplitExt(file.filename)) \in upload_extensions
          /\ file.parses
          /\ resumes' = Insert(resumes, ImportedRow(u, extractresumefrompdf(file)))
          /\ Answer("uploadpdf", "POST", u, NewId(resumes), file, 302, "edit_resume",
                    {<<NewId(resumes), u>>})
    /\ UNCHANGED <<users, sessions>>

\* the edit forms: nothing filled in, a summary and a career objective typed
\* in, a picture uploaded, and the stored values of the row sent back as the
\* page shows them
EditForms(resume_id) ==
    {FormOf(<<>>),
     FormOf([title |-> "My Resume", summary |-> "Built APIs. Led a team of five",
             careerobjective |-> "Grow.Lead"]),
     FormOf([profile_pic |-> "../my photo.png"])}
    \cup (IF resume_id \in DOMAIN resumes
          THEN {FormOf([summary |-> Or(resumes[resume_id].summary, ""),
                        careerobjective |-> Or(resumes[resume_id].career_objective, "")])}
          ELSE {})

\* the times of day a form can be saved at, as line 553 formats them
Clock == {"20240518_093000", "20240518_093001"}

\* lines 515-564
EditResume(u, resume_id, method) ==
    /\ u \in sessions
    /\ \/ /\ ~first_or_404(u, resume_id)
          /\ Answer("edit_resume", method, u, resume_id, <<>>, 404, "", {})
          /\ UNCHANGED resumes
       \/ /\ first_or_404(u, resume_id)
          /\ method = "GET"
          /\ Answer("edit_resume", method, u, resume_id, <<>>, 200, "", Rows({resume_id}))
          /\ UNCHANGED resumes
       \/ /\ first_or_404(u, resume_id)
          /\ method = "POST"
          /\ \E form \in EditForms(resume_id), now \in Clock :
                 /\ resumes' = [resumes EXCEPT
                        ![resume_id] =
                            EditedRow(u, resume_id, resumes[resume_id], form, now)]
                 /\ Answer("edit_resume", method, u, resume_id, form, 302, "view_resume",
                           Rows({resume_id}))
    /\ UNCHANGED <<users, sessions>>

\* lines 567-578
ViewResume(u, resume_id, method, template_name) ==
    /\ u \in sessions
    /\ \/ /\ ~first_or_404(u, resume_id)
          /\ Answer("view_resume", method, u, resume_id, <<>>, 404, "", {})
          /\ UNCHANGED resumes
       \/ /\ first_or_404(u, resume_id)
          /\ resumes' = IF method = "POST"
                        THEN [resumes EXCEPT ![resume_id].template_name = template_name]
                        ELSE resumes
          /\ Answer("view_resume", method, u, resume_id, <<>>, 200, "", Rows({resume_id}))
    /\ UNCHANGED <<users, sessions>>

\* lines 580-592; pdf_config is set when wkhtmltopdf is installed (lines 75-78)
DownloadPdf(u, resume_id, pdf_config) ==
    /\ u \in sessions
    /\ \/ /\ ~first_or_404(u, resume_id)
          /\ Answer("download_pdf", "GET", u, resume_id, <<>>, 404, "", {})
       \/ /\ first_or_404(u, resume_id)
          /\ ~pdf_config
          /\ Answer("download_pdf", "GET", u, resume_id, <<>>, 302, "view_resume",
                    Rows({resume_id}))
       \/ /\ first_or_404(u, resume_id)
          /\ pdf_config
          /\ Answer("download_pdf", "GET", u, resume_id, <<>>, 200, "", Rows({resume_id}))
    /\ UNCHANGED <<users, sessions, resumes>>

\* lines 595-602
DeleteResume(u, resume_id) ==
    /\ u \in sessions
    /\ \/ /\ ~first_or_404(u, resume_id)
          /\ Answer("delete_resume", "GET", u, resume_id, <<>>, 404, "", {})
          /\ UNCHANGED resumes
       \/ /\ first_or_404(u, resume_id)
          /\ resumes' = Delete(resumes, resume_id)
          /\ Answer("delete_resume", "GET", u, resume_id, <<>>, 302, "dashboard",
                    Rows({resume_id}))
    /\ UNCHANGED <<users, sessions>>

\* lines 605-613; resume_id 0 stands for a request without the resume_id argument
PdfTemplate(u, resume_id) ==
    /\ u \in sessions
    /\ \/ /\ resume_id = 0
          /\ Answer("pdf_template", "GET", u, resume_id, <<>>, 400, "", {})
       \/ /\ resume_id # 0
          /\ ~first_or_404(u, resume_id)
          /\ Answer("pdf_template", "GET", u, resume_id, <<>>, 404, "", {})
       \/ /\ resume_id # 0
          /\ first_or_404(u, resume_id)
          /\ Answer("pdf_template", "GET", u, resume_id, <<>>, 200, "", Rows({resume_id}))
    /\ UNCHANGED <<users, sessions, resumes>>

\* lines 805-816
FixTitles(u) ==
    /\ u \in sessions
    /\ resumes' = FixedTitles(u)
    /\ Answer("fix_titles", "GET", u, 0, <<>>, 302, "dashboard", Rows(ResumesOf(u)))
    /\ UNCHANGED <<users, sessions>>

\* the browsers that send requests: one per account, also for an account that
\* is created later
Browsers == 1..3

\* the resume ids a request can name
ResumeIds == 1..2

\* the signup forms: no name, a taken address, a new account
SignupForms ==
    {<<"", "cy@example.com", "pw-cy">>, <<"Asha R", "asha@example.com", "pw-2">>,
     <<"Cy Young", "cy@example.com", "pw-cy">>}

\* the login forms: right and wrong password, unknown address
LoginForms ==
    {<<"asha@example.com", "pw-asha">>, <<"bo@example.com", "pw-bo">>,
     <<"bo@example.com", "guess">>, <<"nobody@example.com", "pw-asha">>}

\* a mapping the parser returns: a resume with a title and a career objective
ParsedJane ==
    [get_default_16_fields EXCEPT
        !.title = "Backend Engineer", !.fullname = "Jane Doe",
        !.email = "jane.doe@email.com", !.skills = "Python, SQL, Docker",
        !.summary = "Experienced backend engineer. Five years building APIs.",
        !.career_objective = "To lead a platform team."]

UploadedFile(filename, parses, parsed) ==
    [present |-> TRUE, filename |-> filename, parses |-> parses, parsed |-> parsed]

\* the uploads: no file, refused extensions, a file the parser fails on, and
\* files it parses, one of them into the defaults of the extractor
Uploads ==
    {[present |-> FALSE, filename |-> "", parses |-> FALSE, parsed |-> <<>>],
     UploadedFile("notes.txt", TRUE, ParsedJane),
     UploadedFile("docs/.pdf", TRUE, ParsedJane),
     UploadedFile("broken.pdf", FALSE, <<>>),
     UploadedFile("blank.PDF", TRUE, get_default_16_fields),
     UploadedFile("jane.v2.docx", TRUE, ParsedJane)}

NextApp ==
    \/ \E f \in SignupForms, method \in {"GET", "POST"} : Signup(method, f[1], f[2], f[3])
    \/ \E f \in LoginForms, method \in {"GET", "POST"} : Login(method, f[1], f[2])
    \/ \E u \in Browsers : Logout(u)
    \/ \E u \in Browsers, route \in {"dashboard", "delete_resume"} : LoginRequired(route, u)
    \/ \E u \in Browsers : NewResume(u, "template2")
    \/ \E u \in Browsers, file \in Uploads : UploadPdf(u, file)
    \/ \E u \in Browsers, r \in ResumeIds, method \in {"GET", "POST"} :
           EditResume(u, r, method)
    \/ \E u \in Browsers, r \in ResumeIds, method \in {"GET", "POST"} :
           ViewResume(u, r, method, "template3")
    \/ \E u \in Browsers, r \in ResumeIds, pdf_config \in BOOLEAN :
           DownloadPdf(u, r, pdf_config)
    \/ \E u \in Browsers, r \in ResumeIds : DeleteResume(u, r)
    \/ \E u \in Browsers, r \in {0} \cup ResumeIds : PdfTemplate(u, r)
    \/ \E u \in Browsers : FixTitles(u)

\* two accounts, any of them logged in, no resume yet; /ats-score was asked
\* for without a session and has answered
InitApp ==
    /\ request = [method |-> "GET", user |-> 0, filename |-> "", pdf |-> Unreadable]
    /\ pc = "responded"
    /\ all_text = ""
    /\ lines = <<>>
    /\ result = get_default_16_fields
    /\ section_positions = <<>>
    /\ raised = "none"
    /\ response = "redirect: login"
    /\ users = Accounts
    /\ sessions \in SUBSET (DOMAIN Accounts)
    /\ resumes = <<>>
    /\ http = NoExchange
    /\ served = 0

SpecApp == InitApp /\ [][NextApp]_vars

-----------------------------------------------------------------------------
(* Properties                                                              *)

\* the default mapping, as the specification writes it
DefaultMapping ==
    [f \in Fields |->
        IF f = "fullname" THEN "Your Name"
        ELSE IF f = "summary" THEN "PDF loaded successfully! Edit your details above."
        ELSE ""]

\* every character of every page is whitespace
BlankPages(pages) ==
    \A k \in 1..Len(pages) : \A i \in 1..Len(pages[k]) : Char(pages[k], i) \in Whitespace

\* extract_resume_from_pdf has returned to ats_score
Returned == pc = "return"

\* ... and no exception was caught on the way
ReturnedNormally == pc = "return" /\ raised = "none"

\* C1: when the text extracted from the pages is empty or only whitespace,
\* extract_resume_from_pdf returns exactly the default mapping: title "",
\* fullname "Your Name", summary the placeholder sentence, the 17 others "".
C1_BlankTextGivesDefaults ==
    (Returned /\ request.pdf.readable /\ BlankPages(request.pdf.pages))
        => result = DefaultMapping

\* a PDF with a page of whitespace has been read and the defaults returned
C1_Witness ==
    /\ ReturnedNormally
    /\ request.pdf.readable
    /\ BlankPages(request.pdf.pages)
    /\ \E k \in 1..Len(request.pdf.pages) : Len(request.pdf.pages[k]) > 0
    /\ result = DefaultMapping

\* C2: at every point, and so in whatever extract_resume_from_pdf returns (also
\* when a stage failed), the mapping has exactly the 20 keys and every value is
\* a string.
C2_TwentyStringKeys ==
    /\ DOMAIN result = Fields
    /\ Cardinality(Fields) = 20
    /\ \A f \in Fields : result[f] \in STRING

\* a stage failed after earlier stages had detected fields, and the mapping was returned
C2_Witness ==
    /\ Returned
    /\ raised \in StageSet
    /\ result.email # ""
    /\ DOMAIN result = Fields
    /\ \A f \in Fields : result[f] \in STRING

\* C3: the returned summary, skills, experience, education, projects,
\* certifications, languages and awards are at most 1000, 500, 1500, 1000, 800,
\* 800, 300 and 500 characters long, on the header path and on the fallbacks.
C3_FieldLengthCaps ==
    /\ Len(result.summary) <= 1000
    /\ Len(result.skills) <= 500
    /\ Len(result.experience) <= 1500
    /\ Len(result.education) <= 1000
    /\ Len(result.projects) <= 800
    /\ Len(result.certifications) <= 800
    /\ Len(result.languages) <= 300
    /\ Len(result.awards) <= 500

\* a summary cut from a header slice of more than 1000 characters, and an
\* experience and an education cut from fallback lines of more than 1500 and 1000
C3_Witness ==
    /\ ReturnedNormally
    /\ "summary" \in DOMAIN section_positions
    /\ Len(Join(get_section_content(lines, section_positions, "summary", 10), " ")) > 1000
    /\ Len(result.summary) = 1000
    /\ "experience" \notin DOMAIN section_positions
    /\ Len(Join(ExperienceLines(lines, section_positions), "\n")) > 1500
    /\ Len(result.experience) = 1500
    /\ "education" \notin DOMAIN section_positions
    /\ Len(Join(EducationLines(lines, section_positions), "\n")) > 1000
    /\ Len(result.education) = 1000

\* the 0-based indices of the lines get_section_content returns for a detected
\* field: the lines of its slice that pass the length and page-marker filter
ContentIndices(field) ==
    LET b == SliceBounds(lines, section_positions, field, section_max_lines[field])
    IN  {i \in b[1]..(Min2(b[2], Len(lines)) - 1) : IsContentLine(lines[i + 1])}

\* C4: section slicing never crosses into another detected section: for fields
\* with header indices h1 < h2 (also h2 = h1 + 1) the content returned for the
\* field at h1 holds no line of index >= h2.
C4_SliceStopsAtNextHeader ==
    \A f1, f2 \in DOMAIN section_positions :
        section_positions[f1] < section_positions[f2] =>
            \A i \in ContentIndices(f1) : i < section_positions[f2]

\* C5: extract_resume_from_pdf never raises, and whenever a stage failed, at
\* whatever point of the pipeline, the returned mapping is the default mapping.
C5_FailureGivesDefaults ==
    (Returned /\ raised # "none") => result = DefaultMapping

\* the resume of the scenario has been extracted
JaneDoeExtracted ==
    /\ ReturnedNormally
    /\ request.pdf.readable
    /\ request.pdf.pages = <<JaneDoeText>>

\* what the scenario expects of the fields other than skills
JaneDoeOtherFields ==
    /\ result.fullname = "Jane Doe"
    /\ result.email = "jane.doe@email.com"
    /\ result.phone = "+91 9876543210"
    /\ Contains(result.location, "Bangalore")
    /\ Contains(result.summary, "Experienced backend engineer")
    /\ Contains(result.experience,
                "Backend Engineer at Foo Corp 2019-2024\nBuilt payment systems.")

\* C6 as stated: the scenario resume yields fullname "Jane Doe", the e-mail, the
\* +91 phone, a location with "Bangalore", a summary with "Experienced backend
\* engineer", skills containing "Python, Go, SQL, Docker" and an experience with
\* both experience lines joined by a newline.
C6_ScenarioAsStated ==
    JaneDoeExtracted =>
        (JaneDoeOtherFields /\ Contains(result.skills, "Python, Go, SQL, Docker"))

\* C6 amended: the same, with skills equal to "Python, SQL, Docker": the token
\* "Go" has two characters and only tokens longer than 2 are kept.
C6_ScenarioWithoutShortToken ==
    JaneDoeExtracted => (JaneDoeOtherFields /\ result.skills = "Python, SQL, Docker")

\* the scenario resume has been extracted, its skills without "Go"
C6_Witness ==
    JaneDoeExtracted /\ JaneDoeOtherFields /\ result.skills = "Python, SQL, Docker"

\* no line matches an experience header pattern
NoExperienceHeader ==
    \A i \in 1..Len(lines) : ~IsHeaderOf("experience", Lower(lines[i]))

\* the 1-based positions of the lines shorter than 70 that contain "experience"
StrayExperienceLines ==
    {i \in 1..Len(lines) : Len(lines[i]) < 70 /\ Contains(Lower(lines[i]), "experience")}

\* the newline-join of the up to 14 lines after the first such line, cut at 1500
FollowingFourteen ==
    LET first == MinOf(StrayExperienceLines)
    IN  Truncate(Join(SubSeq(lines, first + 1, Min2(first + 14, Len(lines))), "\n"), 1500)

\* C7 as stated: with no experience header but a line shorter than 70 that
\* contains "experience", wherever it sits (also as the last line), the returned
\* experience is non-empty and is the newline-join of the 14 lines after the
\* first such line, cut at the end of the document and at 1500 characters.
C7_FallbackAsStated ==
    (ReturnedNormally /\ NoExperienceHeader /\ StrayExperienceLines # {}) =>
        (result.experience # "" /\ result.experience = FollowingFourteen)

\* C7 amended: the returned experience is that join, and it is non-empty
\* exactly when the first such line is not the last line of the document.
C7_FallbackFollowingLines ==
    (ReturnedNormally /\ NoExperienceHeader /\ StrayExperienceLines # {}) =>
        /\ result.experience = FollowingFourteen
        /\ (result.experience # "") <=> (MinOf(StrayExperienceLines) < Len(lines))

\* the first such line is followed by more than 14 lines, of more than 1500
\* characters, and by a second line equal to it; the experience was cut at 1500
C7_Witness ==
    /\ ReturnedNormally
    /\ NoExperienceHeader
    /\ Cardinality(StrayExperienceLines) = 2
    /\ Len(lines) > MinOf(StrayExperienceLines) + 14
    /\ result.experience = FollowingFourteen
    /\ Len(result.experience) = 1500

\* the title the claim describes
ClaimedTitle ==
    LET hits == {i \in 1..Min2(25, Len(lines)) :
                    Len(lines[i]) < 100 /\ ContainsAny(Lower(lines[i]), title_keywords)}
    IN  IF hits # {} THEN lines[MinOf(hits)]
        ELSE IF Contains(Lower(result.skills), "data") THEN "Data Professional"
        ELSE IF Contains(Lower(result.skills), "python") THEN "Software Developer"
        ELSE "Professional"

\* C8: the title is the first of the first 25 lines that is shorter than 100
\* and holds a job-title keyword; without such a line it is "Data Professional",
\* "Software Developer" or "Professional" after the skills text; so the title of
\* a non-empty input is never empty.
C8_TitleInference ==
    (ReturnedNormally /\ lines # <<>>) =>
        (result.title = ClaimedTitle /\ result.title # "")

\* the link the claim describes for a host: the first case-insensitive match
\* of the host up to the next whitespace, with "https://" put before a token
\* that has no scheme; "" without a match
ClaimedLink(host) ==
    LET starts == {i \in 1..Len(all_text) : StartsAtCI(all_text, i, host)}
    IN  IF starts = {} THEN ""
        ELSE LET i     == MinOf(starts)
                 ends  == {j \in (i + Len(host) - 1)..Len(all_text) :
                              j = Len(all_text) \/ Char(all_text, j + 1) \in Whitespace}
                 token == SubSeq(all_text, i, MinOf(ends))
             IN  IF StartsWith(token, "http://") \/ StartsWith(token, "https://")
                 THEN token ELSE "https://" \o token

HasScheme(url) == StartsWith(url, "http://") \/ StartsWith(url, "https://")

\* C9: linkedin and github are the first matched token of their host with
\* "https://" before a token without scheme, "" when the text has no match; a
\* non-empty value starts with a scheme.
C9_LinksCarryScheme ==
    (ReturnedNormally /\ request.pdf.readable) =>
        /\ result.linkedin = ClaimedLink("linkedin.com")
        /\ result.github = ClaimedLink("github.com")
        /\ result.linkedin # "" => HasScheme(result.linkedin)
        /\ result.github # "" => HasScheme(result.github)

\* a text with github.com/janedoe without scheme and a LinkedIn URL with one
C9_Witness ==
    /\ ReturnedNormally
    /\ Contains(all_text, " github.com/janedoe")
    /\ Contains(all_text, "https://www.LinkedIn.com/in/jane-doe")
    /\ result.github = "https://github.com/janedoe"
    /\ result.linkedin = "https://LinkedIn.com/in/jane-doe"

\* C10: when the file cannot be opened, what the caller gets differs from every
\* extraction result, the default mapping of an empty document included, and
\* /ats-score renders no score for it.
C10_AcquisitionFailureIsDistinct ==
    raised = "open" => (result # DefaultMapping /\ response # "score")

\* what a field is when it is built from its header's slice alone: the join of
\* the slice's content lines, cut at the cap, "" when the slice has no content
FromHeaderSlice(field, cap) ==
    Truncate(Join(get_section_content(lines, section_positions, field,
                                      section_max_lines[field]), "\n"), cap)

\* C11: the experience and education fallbacks are used only if no header
\* matched: whenever a header of the field was detected, the returned field is
\* built from that header's slice alone, and stays "" when the slice has no
\* content line.
C11_FallbackOnlyWithoutHeader ==
    ReturnedNormally =>
        /\ "experience" \in DOMAIN section_positions
               => result.experience = FromHeaderSlice("experience", experience_cap)
        /\ "education" \in DOMAIN section_positions
               => result.education = FromHeaderSlice("education", education_cap)


\* the content lines of the slice of the detected skills header
SkillsSlice ==
    get_section_content(lines, section_positions, "skills", section_max_lines.skills)

\* the separators of the skills text that a modelled text can hold
SkillSeparators == {",", "|", "/", "\n"}

\* the value the claim describes for a skills text, read off the positions of
\* the separators: a token starts at position 1 and after every separator
ClaimedSkills(text) ==
    LET n          == Len(text)
        seps       == {i \in 1..n : Char(text, i) \in SkillSeparators}
        starts     == {1} \cup {i + 1 : i \in seps}
        endOf(a)   == MinOf({j \in seps : j >= a} \cup {n + 1}) - 1
        token(a)   == Strip(SubSeq(text, a, endOf(a)))
        kept       == {a \in starts : Len(token(a)) > 2 /\ Len(token(a)) < 80}
        rank(a)    == Cardinality({b \in kept : b < a})
        first30    == {a \in kept : rank(a) < 30}
        tokens     == [k \in 1..Cardinality(first30) |->
                          token(CHOOSE a \in first30 : rank(a) = k - 1)]
    IN  Truncate(Join(tokens, ", "), 500)

\* C12: when the skills slice is non-empty, the returned skills are the slice
\* lines joined with spaces, split on the separators, each token trimmed, the
\* tokens of length 3..79 kept, the first 30 of them joined with ", " in their
\* order, and the whole cut at 500 characters.
C12_SkillsTokens ==
    (ReturnedNormally /\ SkillsSlice # <<>>)
        => result.skills = ClaimedSkills(Join(SkillsSlice, " "))

\* a skills section of more than 30 kept tokens with tokens of one and two
\* characters among the dropped ones, returned under 500 characters
C12_Witness ==
    /\ ReturnedNormally
    /\ Len(SkillsSlice) > 10
    /\ SkillsSlice[1] = SkillLine
    /\ Contains(result.skills, "Python, SQL, Docker, Kubernetes Python, SQL")
    /\ ~Contains(result.skills, "Go")
    /\ Len(Pieces(result.skills, {","})) = 30
    /\ Len(result.skills) < 500
    /\ result.skills = ClaimedSkills(Join(SkillsSlice, " "))


\* some line of the document matches career\s+objective, case-insensitively
CareerObjectiveLine ==
    \E i \in 1..Len(lines) : re_search(career_objective_pattern, lines[i])

\* the content lines of the slice of the detected summary header
SummarySlice ==
    get_section_content(lines, section_positions, "summary", section_max_lines.summary)

\* C13 as stated: whenever a line of the document matches the "career
\* objective" pattern the returned career_objective equals the returned
\* summary, and in every result career_objective is "" or equal to summary.
C13_CareerObjectiveEqualsSummary ==
    /\ (ReturnedNormally /\ CareerObjectiveLine) => result.career_objective = result.summary
    /\ result.career_objective \in {"", result.summary}

\* C13, amended: whenever extraction ran to its end, the summary header's slice
\* has a content line and a line of the document matches the "career
\* objective" pattern, the returned career_objective equals the returned
\* summary; and in every result career_objective is "" or equal to summary.
C13_CareerObjectiveWithSummaryContent ==
    /\ (ReturnedNormally /\ CareerObjectiveLine /\ SummarySlice # <<>>)
           => result.career_objective = result.summary
    /\ result.career_objective \in {"", result.summary}

\* a summary assembled under a SUMMARY header and copied because a later line
\* holds "career  objective"
C13_Witness ==
    /\ ReturnedNormally
    /\ CareerObjectiveLine
    /\ ~re_search(career_objective_pattern, lines[section_positions.summary + 1])
    /\ SummarySlice # <<>>
    /\ result.summary = Join(SummarySlice, " ")
    /\ result.career_objective = result.summary


\* the 0-based indices of the lines that match one of the field's patterns
HeaderLines(field) ==
    {i \in 0..(Len(lines) - 1) : IsHeaderOf(field, Lower(lines[i + 1]))}

\* the slice the claim gives a field whose header is at index h: the lines
\* after h up to the next header of an index greater than h, at most max_lines
\* of them, without the lines under 10 characters and the page markers
SliceToNextLaterHeader(h, max_lines) ==
    LET later == {section_positions[k] : k \in DOMAIN section_positions} \ (0..h)
        stop  == IF later = {} THEN Len(lines) ELSE MinOf(later)
    IN  Filter(Slice(lines, h + 1, Min2(stop, h + 1 + max_lines)), IsContentLine)

\* C14: each of the 8 fields records the index of the first line matching one
\* of its patterns; two fields matching the same line record the same index,
\* neither ends the other's slice, and both receive the content up to the next
\* strictly later header, each under its own max-line cap.
C14_SameIndexHeaders ==
    ReturnedNormally =>
        /\ \A f \in SectionFields :
               IF HeaderLines(f) = {} THEN f \notin DOMAIN section_positions
               ELSE /\ f \in DOMAIN section_positions
                    /\ section_positions[f] = MinOf(HeaderLines(f))
        /\ \A f, g \in DOMAIN section_positions :
               (f # g /\ section_positions[f] = section_positions[g]) =>
                   get_section_content(lines, section_positions, f, section_max_lines[f])
                       = SliceToNextLaterHeader(section_positions[f], section_max_lines[f])


\* /uploadpdf has created a row from the mapping the parser returned
Imported ==
    http.route = "uploadpdf" /\ http.status = 302 /\ http.to = "edit_resume"

\* C15: on a successful upload every field of the parsed 20-key mapping is
\* copied verbatim into the same-named column of the new Resume row, also
\* career_objective and title.
C15_UploadCopiesVerbatim ==
    Imported =>
        \A f \in Fields : resumes[http.resume_id][f] = extractresumefrompdf(http.form)[f]

\* the routes that name a resume
ResumeRoutes == {"edit_resume", "view_resume", "download_pdf", "delete_resume", "pdf_template"}

\* the step answers a request of a logged-in user that names a resume of
\* another user, or no resume at all
ForeignRequest ==
    /\ http'.route \in ResumeRoutes
    /\ http'.user \in sessions
    /\ http'.resume_id # 0
    /\ \/ http'.resume_id \notin DOMAIN resumes
       \/ resumes[http'.resume_id].user_id # http'.user

\* C16: whatever requests came before, a request by user u reads, modifies or
\* deletes a resume only if the resume's user_id is u, and otherwise ends in
\* 404 with every resume unchanged; a row's user_id is the user who created it
\* and never changes.
C16_OwnershipIsolation ==
    [][ /\ \A row \in http'.accessed : row[2] = http'.user
        /\ \A r \in DOMAIN resumes :
               (r \notin DOMAIN resumes' \/ resumes'[r] # resumes[r])
                   => resumes[r].user_id = http'.user
        /\ ForeignRequest => (http'.status = 404 /\ http'.accessed = {})
        /\ http'.status = 404 => resumes' = resumes
        /\ \A r \in DOMAIN resumes \cap DOMAIN resumes' :
               resumes'[r].user_id = resumes[r].user_id
        /\ \A r \in DOMAIN resumes' \ DOMAIN resumes : resumes'[r].user_id = http'.user
      ]_vars

\* a logged-in user asked to delete the resume of another user, got 404, and
\* the resume is still there
C16_Witness ==
    /\ http.route = "delete_resume"
    /\ http.user \in sessions
    /\ http.status = 404
    /\ http.resume_id \in DOMAIN resumes
    /\ resumes[http.resume_id].user_id # http.user
    /\ resumes[http.resume_id].user_id \in sessions

\* the exchange is an edit form that was saved
Saved(exchange) ==
    exchange.route = "edit_resume" /\ exchange.method = "POST" /\ exchange.status = 302

\* C17: after one edit_resume POST, a second POST that submits the stored
\* summary and career objective back unchanged, or submits them empty, leaves
\* the stored summary and career objective identical.
C17_SaveIsIdempotent ==
    [][ ( /\ Saved(http)
          /\ Saved(http')
          /\ http'.user = http.user
          /\ http'.resume_id = http.resume_id
          /\ http'.form.summary \in {"", resumes[http.resume_id].summary}
          /\ http'.form.careerobjective \in {"", resumes[http.resume_id].career_objective} )
        => /\ resumes'[http.resume_id].summary = resumes[http.resume_id].summary
           /\ resumes'[http.resume_id].career_objective
                  = resumes[http.resume_id].career_objective
      ]_vars

=============================================================================
